---- MODULE Spec2Model ----
(***************************************************************************)
(* Incremental load of station-status snapshots from the Snapshot Store    *)
(* (Cloud Storage) into the destination table (BigQuery).                  *)
(*                                                                         *)
(* Modelled from src/data_loading/prefect_load_station_status.py (the      *)
(* retry-orchestrated flow) and src/cloud_function/main.py (the collector  *)
(* that writes the snapshots).  Strings are sequences of one-character     *)
(* strings, so the file-name and timestamp conversions are computed the    *)
(* way the code computes them.                                             *)
(***************************************************************************)
EXTENDS Integers, Sequences, FiniteSets, TLC

(***************************************************************************)
(* Bounds of the model.                                                    *)
(***************************************************************************)
\* objects the Snapshot Store may hold
MaxObjects == 2
\* flow runs that may be started
MaxRuns == 2

(***************************************************************************)
(* Program constants: the retry budgets of the Prefect tasks.              *)
(***************************************************************************)
LedgerRetries == 2
ListRetries == 2
ReadRetries == 3
LoadRetries == 2

(***************************************************************************)
(* String literals of the program.                                         *)
(***************************************************************************)
prefix == <<"r", "a", "w", "/", "s", "t", "a", "t", "i", "o", "n", "_", "s", "t", "a", "t", "u", "s", "/">>
STATUS_ == <<"s", "t", "a", "t", "u", "s", "_">>
DOT_JSON == <<".", "j", "s", "o", "n">>
DATE_EQ == <<"d", "a", "t", "e", "=">>

Digits == <<"0", "1", "2", "3", "4", "5", "6", "7", "8", "9">>
DigitSet == {Digits[i] : i \in 1..10}
IsDigit(c) == c \in DigitSet
DigitVal(c) == CHOOSE n \in 0..9 : Digits[n + 1] = c
DigitChar(n) == Digits[n + 1]

\* the character at position i, "" past the end of the string
At(s, i) == IF i >= 1 /\ i <= Len(s) THEN s[i] ELSE ""

StartsWith(s, p) == Len(s) >= Len(p) /\ SubSeq(s, 1, Len(p)) = p
EndsWith(s, p) == Len(s) >= Len(p) /\ SubSeq(s, Len(s) - Len(p) + 1, Len(s)) = p

\* the element of a one-element set: {e(v) : v \in {x}} computes x once
\* however often e uses it, as the program computes a local once
Only(S) == CHOOSE x \in S : TRUE

\* str.replace(old, ''): every non-overlapping occurrence, left to right
RECURSIVE Remove(_, _)
Remove(s, old) ==
    IF Len(s) < Len(old) THEN s
    ELSE IF SubSeq(s, 1, Len(old)) = old
         THEN Remove(SubSeq(s, Len(old) + 1, Len(s)), old)
         ELSE <<Head(s)>> \o Remove(Tail(s), old)

\* blob_name.split('/')[-1]
RECURSIVE LastSegment(_)
LastSegment(s) ==
    IF \E i \in 1..Len(s) : s[i] = "/"
    THEN LastSegment(SubSeq(s, (CHOOSE i \in 1..Len(s) : s[i] = "/") + 1, Len(s)))
    ELSE s

\* filename.replace('status_', '').replace('.json', '')
TimestampStrOfPath(blob_name) == Remove(Remove(blob_name, STATUS_), DOT_JSON)

TimestampStr(blob_name) ==
    Only({Remove(stem, DOT_JSON) :
             stem \in {Remove(filename, STATUS_) : filename \in {LastSegment(blob_name)}}})

(***************************************************************************)
(* datetime values and their conversions.                                  *)
(***************************************************************************)
DateTime(Y, m, d, H, M, S) ==
    [year |-> Y, month |-> m, day |-> d, hour |-> H, minute |-> M, second |-> S]

NoDateTime == DateTime(0, 0, 0, 0, 0, 0)

IsLeap(Y) == (Y % 4 = 0 /\ Y % 100 # 0) \/ Y % 400 = 0

DaysInMonth(Y, m) ==
    IF m = 2 THEN (IF IsLeap(Y) THEN 29 ELSE 28)
    ELSE IF m \in {4, 6, 9, 11} THEN 30 ELSE 31

\* the datetime constructor's range checks
ValidDateTime(dt) ==
    /\ dt.year \in 1..9999
    /\ dt.month \in 1..12
    /\ dt.day >= 1 /\ dt.day <= DaysInMonth(dt.year, dt.month)
    /\ dt.hour \in 0..23
    /\ dt.minute \in 0..59
    /\ dt.second \in 0..59

Pad2(n) == <<DigitChar((n \div 10) % 10), DigitChar(n % 10)>>
Pad4(n) == <<DigitChar((n \div 1000) % 10), DigitChar((n \div 100) % 10)>> \o Pad2(n % 100)

\* strftime("%Y%m%d_%H%M%S")
Strftime(dt) ==
    Pad4(dt.year) \o Pad2(dt.month) \o Pad2(dt.day) \o <<"_">>
        \o Pad2(dt.hour) \o Pad2(dt.minute) \o Pad2(dt.second)

\* strftime("%Y-%m-%d"), also date.isoformat()
DateIsoformat(dt) ==
    Pad4(dt.year) \o <<"-">> \o Pad2(dt.month) \o <<"-">> \o Pad2(dt.day)

\* datetime.isoformat() of a value with no microseconds and no time zone
Isoformat(dt) ==
    DateIsoformat(dt) \o <<"T">> \o Pad2(dt.hour) \o <<":">> \o Pad2(dt.minute)
        \o <<":">> \o Pad2(dt.second)

\* the number a field of the given width spells at position p, -1 if it is
\* no number (the day field also takes a blank followed by a digit)
FieldVal(s, p, w) ==
    IF w = 1
    THEN (IF IsDigit(At(s, p)) THEN DigitVal(At(s, p)) ELSE -1)
    ELSE IF IsDigit(At(s, p)) /\ IsDigit(At(s, p + 1))
         THEN 10 * DigitVal(At(s, p)) + DigitVal(At(s, p + 1))
         ELSE -1

DayVal(s, p, w) ==
    IF w = 2 /\ At(s, p) = " " /\ IsDigit(At(s, p + 1)) /\ At(s, p + 1) # "0"
    THEN DigitVal(At(s, p + 1))
    ELSE FieldVal(s, p, w)

\* the directive's regular expression accepts the field
FieldOk(v, w, lo, hi) == IF w = 1 THEN v >= lo /\ v <= 9 ELSE v >= lo /\ v <= hi

YearVal(s) ==
    IF \A i \in 1..4 : IsDigit(At(s, i))
    THEN 1000 * DigitVal(s[1]) + 100 * DigitVal(s[2]) + 10 * DigitVal(s[3]) + DigitVal(s[4])
    ELSE -1

\* field widths <<m, d, H, M, S>> and the value each field then has
Widths == [1..5 -> {1, 2}]
FieldPos(w, i) == IF i = 1 THEN 5
                  ELSE IF i = 2 THEN 5 + w[1]
                  ELSE IF i = 3 THEN 6 + w[1] + w[2]
                  ELSE IF i = 4 THEN 6 + w[1] + w[2] + w[3]
                  ELSE 6 + w[1] + w[2] + w[3] + w[4]
Consumed(w) == 5 + w[1] + w[2] + w[3] + w[4] + w[5]

Parsed(s, w) ==
    DateTime(YearVal(s),
             FieldVal(s, FieldPos(w, 1), w[1]),
             DayVal(s, FieldPos(w, 2), w[2]),
             FieldVal(s, FieldPos(w, 3), w[3]),
             FieldVal(s, FieldPos(w, 4), w[4]),
             FieldVal(s, FieldPos(w, 5), w[5]))

\* the format's regular expression matches a prefix of s with these widths
RegexMatches(s, w) ==
    \E dt \in {Parsed(s, w)} :
        /\ dt.year >= 0
        /\ FieldOk(dt.month, w[1], 1, 12)
        /\ FieldOk(dt.day, w[2], 1, 31)
        /\ At(s, 5 + w[1] + w[2]) = "_"
        /\ FieldOk(dt.hour, w[3], 0, 23)
        /\ FieldOk(dt.minute, w[4], 0, 59)
        /\ FieldOk(dt.second, w[5], 0, 61)

\* the regular expression tries the two-character alternative of a field
\* first, and the earlier field decides
Rank(w) == 16 * (2 - w[1]) + 8 * (2 - w[2]) + 4 * (2 - w[3]) + 2 * (2 - w[4]) + (2 - w[5])

\* datetime.strptime(s, "%Y%m%d_%H%M%S"): ok is FALSE where it raises
\* the match of least rank among M, and the datetime its fields give
Matched(s, M) ==
    Only({Only({IF Consumed(w) = Len(s) /\ ValidDateTime(dt)
                THEN [ok |-> TRUE, value |-> dt]
                ELSE [ok |-> FALSE, value |-> NoDateTime]
                : dt \in {Parsed(s, w)}})
          : w \in {CHOOSE x \in M : \A y \in M : Rank(x) <= Rank(y)}})

Strptime(date_string) ==
    Only({Only({IF M = {} THEN [ok |-> FALSE, value |-> NoDateTime] ELSE Matched(s, M)
                : M \in {{w : w \in {x \in Widths : RegexMatches(s, x)}}}})
          : s \in {date_string}})

\* the datetime the table hands back for a stored ISO-8601 text
\* (the column is a TIMESTAMP; the text has the fixed width isoformat gives)
FromIsoformat(t) ==
    DateTime(1000 * DigitVal(t[1]) + 100 * DigitVal(t[2]) + 10 * DigitVal(t[3]) + DigitVal(t[4]),
             10 * DigitVal(t[6]) + DigitVal(t[7]),
             10 * DigitVal(t[9]) + DigitVal(t[10]),
             10 * DigitVal(t[12]) + DigitVal(t[13]),
             10 * DigitVal(t[15]) + DigitVal(t[16]),
             10 * DigitVal(t[18]) + DigitVal(t[19]))

\* the characters of the program's strings, in code-point order
CharOrder == <<" ", "-", ".", "/", "0", "1", "2", "3", "4", "5", "6", "7", "8", "9", ":", "=", "T", "_", "a", "b", "c", "d", "e", "f", "g", "h", "i", "j", "k", "l", "m", "n", "o", "p", "q", "r", "s", "t", "u", "v", "w", "x", "y", "z">>
Ord(c) == CHOOSE i \in 1..Len(CharOrder) : CharOrder[i] = c

\* a < b as Python and the object store order strings
RECURSIVE LexLess(_, _)
LexLess(a, b) ==
    IF b = <<>> THEN FALSE
    ELSE IF a = <<>> THEN TRUE
    ELSE IF Head(a) = Head(b) THEN LexLess(Tail(a), Tail(b))
    ELSE Ord(Head(a)) < Ord(Head(b))

\* the names of a set, in the order a listing returns them
RECURSIVE Sorted(_)
Sorted(S) ==
    IF S = {} THEN <<>>
    ELSE LET least == CHOOSE a \in S : \A b \in S \ {a} : LexLess(a, b)
         IN <<least>> \o Sorted(S \ {least})

(***************************************************************************)
(* Snapshot payloads.  A payload is what the object's bytes decode to:     *)
(* json is "object", "array" or "invalid" (the bytes are no JSON); "None"  *)
(* stands for an absent member, as dict.get returns it.                    *)
(***************************************************************************)
Payload(json, meta, data, stations, list) ==
    [json |-> json,
     last_updated |-> IF meta THEN "1767364200" ELSE "None",
     ttl |-> IF meta THEN "60" ELSE "None",
     version |-> IF meta THEN "2.3" ELSE "None",
     data |-> data, stations |-> stations, list |-> list]

\* {data: {stations: [s1, s2]}, last_updated, ttl, version}
FeedFull == Payload("object", TRUE, "object", "array", <<"s1", "s2">>)
\* {data: {stations: []}, last_updated, ttl, version}
FeedEmpty == Payload("object", TRUE, "object", "array", <<>>)
\* {last_updated, ttl, version}: no data container
FeedNoData == Payload("object", TRUE, "None", "None", <<>>)
\* {data: {stations: null}, last_updated, ttl, version}
FeedNullStations == Payload("object", TRUE, "object", "null", <<>>)
\* a JSON array instead of an object
JsonArray == Payload("array", FALSE, "None", "None", <<>>)
\* bytes that are no JSON document
InvalidJson == Payload("invalid", FALSE, "None", "None", <<>>)
\* the value of json_data before the first read
NoJson == Payload("none", FALSE, "None", "None", <<>>)

\* what the feed returns that the collector stores (a truthy JSON object)
FeedPayloads == {FeedFull, FeedEmpty, FeedNoData}
\* payloads only another writer of the bucket leaves behind
CorruptPayloads == {JsonArray, InvalidJson}

\* json.dumps of the stations list: "[" item ", " item "]"
RECURSIVE DumpsItems(_)
DumpsItems(l) ==
    IF l = <<>> THEN <<>>
    ELSE IF Len(l) = 1 THEN <<l[1]>>
    ELSE <<l[1], ",", " ">> \o DumpsItems(Tail(l))
Dumps(l) == <<"[">> \o DumpsItems(l) \o <<"]">>
\* json.dumps(None)
NULL_TEXT == <<"n", "u", "l", "l">>

(***************************************************************************)
(* The collector (src/cloud_function/main.py).                             *)
(***************************************************************************)
\* the instants at which the collector may read the clock
Instants == {DateTime(2026, 1, 2, 14, 30, 0), DateTime(2026, 1, 2, 15, 0, 0)}

\* the clock one second later
Tick(dt) ==
    IF dt.second < 59 THEN [dt EXCEPT !.second = dt.second + 1]
    ELSE IF dt.minute < 59 THEN [dt EXCEPT !.second = 0, !.minute = dt.minute + 1]
    ELSE IF dt.hour < 23 THEN [dt EXCEPT !.second = 0, !.minute = 0, !.hour = dt.hour + 1]
    ELSE IF dt.day < DaysInMonth(dt.year, dt.month)
         THEN DateTime(dt.year, dt.month, dt.day + 1, 0, 0, 0)
    ELSE IF dt.month < 12 THEN DateTime(dt.year, dt.month + 1, 1, 0, 0, 0)
    ELSE DateTime(dt.year + 1, 1, 1, 0, 0, 0)

\* f"raw/station_status/date={date_partition}/status_{timestamp}.json"
BlobName(date_partition, timestamp) ==
    prefix \o DATE_EQ \o date_partition \o <<"/">> \o STATUS_ \o timestamp \o DOT_JSON

\* a .json object under the prefix whose name the collector never writes
ReadmeName == prefix \o <<"r", "e", "a", "d", "m", "e">> \o DOT_JSON

\* strftime("%Y-%m-%d") and strftime("%Y%m%d_%H%M%S") of the clock on
\* 2026-01-02 at 14:30:00 and at 15:00:00
D20260102 == <<"2", "0", "2", "6", "-", "0", "1", "-", "0", "2">>
T143000 == <<"2", "0", "2", "6", "0", "1", "0", "2", "_", "1", "4", "3", "0", "0", "0">>
T150000 == <<"2", "0", "2", "6", "0", "1", "0", "2", "_", "1", "5", "0", "0", "0", "0">>

\* a snapshot's name with the suffix written twice
DoubledSuffixName == BlobName(D20260102, T143000) \o DOT_JSON

Object(name, data) == [name |-> name, data |-> data]

(***************************************************************************)
(* The rows of the destination table.                                      *)
(***************************************************************************)
\* transform_to_bigquery_row: ok is FALSE where it raises
TransformRequiresData(json_data, blob_name) ==
    LET parsed == Strptime(TimestampStr(blob_name)) IN
    IF ~parsed.ok \/ json_data.json # "object" \/ json_data.data # "object"
    THEN [ok |-> FALSE, row |-> <<>>]
    ELSE [ok |-> TRUE,
          row |-> [last_updated |-> json_data.last_updated,
                   ttl |-> json_data.ttl,
                   version |-> json_data.version,
                   data_fetched_at |-> Isoformat(parsed.value),
                   date_partition |-> DateIsoformat(parsed.value),
                   stations |-> IF json_data.stations = "array"
                                THEN Dumps(json_data.list)
                                ELSE IF json_data.stations = "null" THEN NULL_TEXT
                                ELSE Dumps(<<>>)]]

TransformTrustsLabel(json_data, blob_name) ==
    LET parsed == Strptime(TimestampStr(blob_name)) IN
    IF ~parsed.ok \/ json_data.json # "object" \/ json_data.data = "null"
    THEN [ok |-> FALSE, row |-> <<>>]
    ELSE [ok |-> TRUE,
          row |-> [last_updated |-> json_data.last_updated,
                   ttl |-> json_data.ttl,
                   version |-> json_data.version,
                   data_fetched_at |-> Isoformat(parsed.value),
                   date_partition |-> SubSeq(blob_name, Len(prefix) + Len(DATE_EQ) + 1,
                                              Len(prefix) + Len(DATE_EQ) + 10),
                   stations |-> IF json_data.data = "object" /\ json_data.stations = "array"
                                THEN Dumps(json_data.list)
                                ELSE IF json_data.data = "object" /\ json_data.stations = "null"
                                THEN NULL_TEXT
                                ELSE Dumps(<<>>)]]

transform_to_bigquery_row(json_data, blob_name) ==
    Only({IF ~parsed.ok \/ json_data.json # "object" \/ json_data.data = "null"
          THEN [ok |-> FALSE, row |-> <<>>]
          ELSE [ok |-> TRUE,
                row |-> [last_updated |-> json_data.last_updated,
                         ttl |-> json_data.ttl,
                         version |-> json_data.version,
                         data_fetched_at |-> Isoformat(parsed.value),
                         date_partition |-> DateIsoformat(parsed.value),
                         stations |-> IF json_data.data = "object" /\ json_data.stations = "array"
                                      THEN Dumps(json_data.list)
                                      ELSE IF json_data.data = "object" /\ json_data.stations = "null"
                                      THEN NULL_TEXT
                                      ELSE Dumps(<<>>)]]
          : parsed \in {Strptime(TimestampStr(blob_name))}})

\* what transform_to_bigquery_row raises: strptime on the file name, or
\* the payload's .get
TransformError(json_data, blob_name) ==
    IF ~Strptime(TimestampStr(blob_name)).ok THEN "ValueError" ELSE "AttributeError"

\* the loop of get_already_loaded_timestamps over the query's rows
NormalizedAsStored(rows) == {rows[k].data_fetched_at : k \in 1..Len(rows)}

NormalizedTimestamps(rows) ==
    {Strftime(FromIsoformat(rows[k].data_fetched_at)) : k \in 1..Len(rows)}

\* filter_new_files
FilterKeepsLoaded(all_files, loaded_timestamps) ==
    SelectSeq(all_files, LAMBDA blob_name : TimestampStr(blob_name) \in loaded_timestamps)

filter_new_files(all_files, loaded_timestamps) ==
    SelectSeq(all_files, LAMBDA blob_name : TimestampStr(blob_name) \notin loaded_timestamps)

\* list_json_files: the .json names under the prefix
JsonNames(objects) ==
    {o.name : o \in {x \in objects : StartsWith(x.name, prefix) /\ EndsWith(x.name, DOT_JSON)}}

(***************************************************************************)
(* State.                                                                  *)
(***************************************************************************)
\* the flow runs that may be in progress; runs of the served deployment
\* follow one another in slot 1
Slots == {1, 2}
SerialSlots == {1}

VARIABLES
    store,              \* the objects of the bucket: a set of [name, data]
    table_exists,       \* the destination table has been created
    table,              \* its rows, in the order they were appended
    runs_started,       \* runs of the loaders started so far
    pc,                 \* per slot: where the flow function is
    attempt,            \* per slot: failed attempts of the task call in progress
    loaded_timestamps,  \* per slot: the flow's local of that name
    all_files,          \* per slot: the flow's local of that name
    new_files,          \* per slot: the flow's local of that name
    item,               \* per slot: index into new_files of the loop's blob_name
    json_data,          \* per slot: the flow's local of that name
    all_rows,           \* per slot: the flow's local of that name
    log,                \* per slot: the summary messages the run has logged
    store_written,      \* per slot: an object was stored since the run started
    prev_clean,         \* the last run to end completed with no error logged,
                        \* and no object was stored since it started
    failed_batch,       \* the rows of the last run to end, when load_to_bigquery
                        \* failed it; empty otherwise
    after_clean,        \* per slot: the run started with prev_clean, and no
                        \* object was stored since
    exception,          \* per slot: the call whose exception left the flow
    trip,               \* one key on its way from the collector's clock to the
                        \* ledger, when the conversions are run on their own
    plain               \* the run of load_station_status.main: where it is,
                        \* its locals and the exceptions it has printed

flow_vars == <<store, table_exists, table, runs_started, pc, attempt, loaded_timestamps,
               all_files, new_files, item, json_data, all_rows, log, store_written,
               prev_clean, failed_batch, after_clean, exception>>

vars == <<store, table_exists, table, runs_started, pc, attempt, loaded_timestamps,
          all_files, new_files, item, json_data, all_rows, log, store_written,
          prev_clean, failed_batch, trip, plain, after_clean, exception>>

\* the return points of the flow function, and the exception leaving it
Returned == {"RET_NO_FILES", "RET_NO_NEW", "RET_LOADED", "RET_NO_ROWS"}
Ended == Returned \cup {"RAISED"}

\* the state Prefect gives the flow run: an exception leaving the flow
\* function fails it, a return completes it
FlowState(r) ==
    IF pc[r] = "RAISED" THEN "Failed"
    ELSE IF pc[r] \in Returned THEN "Completed"
    ELSE IF pc[r] = "IDLE" THEN "None"
    ELSE "Running"

\* a message of the run's log: n and of are the counts it reports, blob the
\* object and e the exception it names
LogEntry(level, msg, n, of, blob) ==
    [level |-> level, msg |-> msg, n |-> n, of |-> of, blob |-> blob, e |-> "None"]

\* the flow's closing messages
NoJsonFilesFound == LogEntry("WARNING", "No JSON files found", 0, 0, <<>>)
NoNewFiles == LogEntry("INFO", "No new files to load", 0, 0, <<>>)
NoRowsToLoadSaysNoNewFiles == NoNewFiles
NoRowsToLoad == LogEntry("WARNING", "No rows to load", 0, 0, <<>>)

\* main has not been called
NoPlain == [pc |-> "IDLE", json_files |-> <<>>, i |-> 0, all_rows |-> <<>>, printed |-> <<>>]

\* no key under way
NoTrip ==
    [step |-> "NONE", timestamp |-> <<>>, date_partition |-> <<>>, status_data |-> NoJson,
     blob_name |-> <<>>, timestamp_str |-> <<>>, result |-> [ok |-> FALSE, row |-> <<>>],
     loaded_timestamps |-> {}, new_files |-> <<>>]

FlowInit ==
    /\ store = {}
    /\ table_exists = FALSE
    /\ table = <<>>
    /\ runs_started = 0
    /\ pc = [r \in Slots |-> "IDLE"]
    /\ attempt = [r \in Slots |-> 0]
    /\ loaded_timestamps = [r \in Slots |-> {}]
    /\ all_files = [r \in Slots |-> <<>>]
    /\ new_files = [r \in Slots |-> <<>>]
    /\ item = [r \in Slots |-> 0]
    /\ json_data = [r \in Slots |-> NoJson]
    /\ all_rows = [r \in Slots |-> <<>>]
    /\ log = [r \in Slots |-> <<>>]
    /\ store_written = [r \in Slots |-> FALSE]
    /\ prev_clean = FALSE
    /\ failed_batch = <<>>
    /\ after_clean = [r \in Slots |-> FALSE]
    /\ exception = [r \in Slots |-> "None"]

Init == FlowInit /\ trip = NoTrip /\ plain = NoPlain

(***************************************************************************)
(* Writers of the Snapshot Store.                                          *)
(***************************************************************************)
Stored(object) ==
    /\ store' = store \cup {object}
    /\ store_written' = [r \in Slots |-> TRUE]
    /\ prev_clean' = FALSE
    /\ after_clean' = [r \in Slots |-> FALSE]
    /\ UNCHANGED <<failed_batch, trip, plain, table_exists, table, runs_started, pc, attempt,
                   loaded_timestamps,
                   all_files, new_files, item, json_data, all_rows, log, exception>>

\* the timestamps of the snapshots in the store
StoredTimestamps == {TimestampStr(o.name) : o \in store}

\* collect_bike_data: the clock is read once for the timestamp and once for
\* the date; a failed fetch or upload stores nothing.  The scheduler calls
\* the collector at most once in a second.
collect_bike_data ==
    /\ Cardinality(store) < MaxObjects
    /\ LET taken == StoredTimestamps IN
       \E now \in Instants, status_data \in FeedPayloads :
           \E later \in {now, Tick(now)} :
               /\ Strftime(now) \notin taken
               /\ Stored(Object(BlobName(DateIsoformat(later), Strftime(now)), status_data))

\* another writer of the bucket: a .json object that is no snapshot, a
\* snapshot under a name off the grammar, or a snapshot whose bytes are
\* damaged
upload_other ==
    /\ Cardinality(store) < MaxObjects
    /\ LET taken == StoredTimestamps IN
       \/ /\ \A o \in store : o.name # ReadmeName
          /\ Stored(Object(ReadmeName, FeedFull))
       \/ /\ \A o \in store : o.name # DoubledSuffixName
          /\ Stored(Object(DoubledSuffixName, FeedFull))
       \/ \E now \in Instants, data \in CorruptPayloads :
              /\ Strftime(now) \notin taken
              /\ Stored(Object(BlobName(DateIsoformat(now), Strftime(now)), data))

(***************************************************************************)
(* The flow load_station_status_flow, one action per task call attempt;    *)
(* the flow's own statements run with the task call that precedes them.    *)
(***************************************************************************)
Set(f, r, v) == [f EXCEPT ![r] = v]
Logged(r, entries) == log' = [log EXCEPT ![r] = log[r] \o entries]

HasError(entries) == \E k \in 1..Len(entries) : entries[k].level = "ERROR"

\* the run in slot r ends at the given point, having logged the entries
Finish(r, point, entries) ==
    /\ pc' = Set(pc, r, point)
    /\ attempt' = Set(attempt, r, 0)
    /\ Logged(r, entries)
    /\ prev_clean' = (point \in Returned /\ ~HasError(log[r] \o entries)
                        /\ ~store_written[r])
    /\ failed_batch' = <<>>
    /\ UNCHANGED <<trip, plain, store, runs_started, store_written, after_clean, exception>>

\* an exception leaves the flow function: the run in slot r fails
Raise(r, call) ==
    /\ pc' = Set(pc, r, "RAISED")
    /\ attempt' = Set(attempt, r, 0)
    /\ exception' = Set(exception, r, call)
    /\ prev_clean' = FALSE
    /\ failed_batch' = IF call = "load_table_from_json" THEN all_rows[r] ELSE <<>>
    /\ UNCHANGED <<trip, plain, store, table_exists, table, runs_started, loaded_timestamps, all_files,
                   new_files, item, json_data, all_rows, log, store_written, after_clean>>

\* the task call in progress raised: Prefect retries it while the budget
\* lasts, then the exception leaves the task
RetryForever(r, retries) ==
    /\ attempt' = Set(attempt, r, (attempt[r] + 1) % (retries + 1))
    /\ UNCHANGED <<store, table_exists, table, runs_started, pc, loaded_timestamps,
                   all_files, new_files, item, json_data, all_rows, log,
                   store_written, prev_clean, failed_batch, trip, plain, after_clean, exception>>

RetryOnceMore(r, retries) ==
    /\ attempt[r] < retries + 1
    /\ attempt' = Set(attempt, r, attempt[r] + 1)
    /\ UNCHANGED <<store, table_exists, table, runs_started, pc, loaded_timestamps,
                   all_files, new_files, item, json_data, all_rows, log,
                   store_written, prev_clean, failed_batch, trip, plain, after_clean, exception>>

Retry(r, retries) ==
    /\ attempt[r] < retries
    /\ attempt' = Set(attempt, r, attempt[r] + 1)
    /\ UNCHANGED <<store, table_exists, table, runs_started, pc, loaded_timestamps,
                   all_files, new_files, item, json_data, all_rows, log,
                   store_written, prev_clean, failed_batch, trip, plain, after_clean, exception>>

ExhaustedAtOnce(r, retries) == TRUE

Exhausted(r, retries) == attempt[r] >= retries

StartRun(r) ==
    /\ pc[r] \in Ended \cup {"IDLE"}
    /\ runs_started < MaxRuns
    /\ runs_started' = runs_started + 1
    /\ pc' = Set(pc, r, "LEDGER_READ")
    /\ attempt' = Set(attempt, r, 0)
    /\ loaded_timestamps' = Set(loaded_timestamps, r, {})
    /\ all_files' = Set(all_files, r, <<>>)
    /\ new_files' = Set(new_files, r, <<>>)
    /\ item' = Set(item, r, 0)
    /\ json_data' = Set(json_data, r, NoJson)
    /\ all_rows' = Set(all_rows, r, <<>>)
    /\ log' = Set(log, r, <<>>)
    /\ store_written' = Set(store_written, r, FALSE)
    /\ after_clean' = Set(after_clean, r, prev_clean)
    /\ exception' = Set(exception, r, "None")
    /\ UNCHANGED <<store, table_exists, table, prev_clean, failed_batch, trip, plain>>

\* what the query raises: the table is missing, or the service fails
QueryExceptions ==
    IF table_exists THEN {"ServiceUnavailable"} ELSE {"NotFound", "ServiceUnavailable"}

CouldNotQuery(e) ==
    [LogEntry("WARNING", "Could not query BigQuery table", 0, 0, <<>>) EXCEPT !.e = e]

\* the "except Exception" of get_already_loaded_timestamps
QueryFailureRaises(r) ==
    \/ Retry(r, LedgerRetries)
    \/ /\ Exhausted(r, LedgerRetries)
       /\ Raise(r, "query")

QueryFailure(r) ==
    /\ pc' = Set(pc, r, "LIST")
    /\ attempt' = Set(attempt, r, 0)
    /\ loaded_timestamps' = Set(loaded_timestamps, r, {})
    /\ \E e \in QueryExceptions : Logged(r, <<CouldNotQuery(e)>>)
    /\ UNCHANGED <<store, table_exists, table, runs_started, all_files, new_files, item,
                   json_data, all_rows, store_written, prev_clean, failed_batch, trip, plain,
                   after_clean, exception>>

\* get_already_loaded_timestamps
LedgerRead(r) ==
    /\ pc[r] = "LEDGER_READ"
    /\ \/ \* bigquery.Client() raises, outside the try
          \/ Retry(r, LedgerRetries)
          \/ /\ Exhausted(r, LedgerRetries)
             /\ Raise(r, "bigquery.Client")
       \/ \* the query raises: the table is missing, or the service fails
          QueryFailure(r)
       \/ \* the query returns the table's distinct data_fetched_at
          /\ table_exists
          /\ pc' = Set(pc, r, "LIST")
          /\ attempt' = Set(attempt, r, 0)
          /\ loaded_timestamps' = Set(loaded_timestamps, r, NormalizedTimestamps(table))
          /\ Logged(r, <<LogEntry("INFO", "already loaded timestamps",
                                   Cardinality(NormalizedTimestamps(table)), 0, <<>>)>>)
          /\ UNCHANGED <<store, table_exists, table, runs_started, all_files, new_files,
                         item, json_data, all_rows, store_written, prev_clean, failed_batch, trip, plain,
                         after_clean, exception>>

\* list_json_files, then the flow's "if not all_files"
ListFiles(r) ==
    /\ pc[r] = "LIST"
    /\ \/ Retry(r, ListRetries)
       \/ /\ Exhausted(r, ListRetries)
          /\ Raise(r, "list_blobs")
       \/ LET json_files == Sorted(JsonNames(store))
              found == LogEntry("INFO", "JSON files in bucket", Len(json_files), 0, <<>>)
          IN /\ all_files' = Set(all_files, r, json_files)
             /\ IF json_files = <<>>
                THEN Finish(r, "RET_NO_FILES",
                            <<found, NoJsonFilesFound>>)
                ELSE /\ pc' = Set(pc, r, "FILTER")
                     /\ attempt' = Set(attempt, r, 0)
                     /\ Logged(r, <<found>>)
                     /\ UNCHANGED <<store, runs_started, store_written, prev_clean, failed_batch, trip, plain,
                                    after_clean, exception>>
             /\ UNCHANGED <<table_exists, table, loaded_timestamps, new_files, item,
                            json_data, all_rows>>

\* filter_new_files, then the flow's "if not new_files"
FilterNewFiles(r) ==
    /\ pc[r] = "FILTER"
    /\ LET kept == filter_new_files(all_files[r], loaded_timestamps[r])
           found == LogEntry("INFO", "new files out of total", Len(kept),
                             Len(all_files[r]), <<>>)
       IN /\ new_files' = Set(new_files, r, kept)
          /\ IF kept = <<>>
             THEN /\ Finish(r, "RET_NO_NEW",
                            <<found, NoNewFiles>>)
                  /\ UNCHANGED item
             ELSE /\ pc' = Set(pc, r, "READ")
                  /\ attempt' = Set(attempt, r, 0)
                  /\ item' = Set(item, r, 1)
                  /\ Logged(r, <<found>>)
                  /\ UNCHANGED <<store, runs_started, store_written, prev_clean, failed_batch, trip, plain,
                                 after_clean, exception>>
          /\ UNCHANGED <<table_exists, table, loaded_timestamps, all_files, json_data,
                         all_rows>>

\* the flow's "if all_rows" after the loop
AfterLoopAlwaysLoads(rows) == "LOAD"

AfterLoop(rows) == IF rows # <<>> THEN "LOAD" ELSE "RET_NO_ROWS"

\* the end of one iteration of "for blob_name in new_files", with the rows
\* accumulated so far and what the iteration logged
NextItem(r, rows, entries) ==
    /\ all_rows' = Set(all_rows, r, rows)
    /\ IF item[r] < Len(new_files[r])
       THEN /\ pc' = Set(pc, r, "READ")
            /\ attempt' = Set(attempt, r, 0)
            /\ item' = Set(item, r, item[r] + 1)
            /\ Logged(r, entries)
            /\ UNCHANGED <<store, runs_started, store_written, prev_clean, failed_batch, trip, plain,
                           after_clean, exception>>
       ELSE /\ UNCHANGED item
            /\ IF AfterLoop(rows) = "LOAD"
               THEN /\ pc' = Set(pc, r, "LOAD")
                    /\ attempt' = Set(attempt, r, 0)
                    /\ Logged(r, entries)
                    /\ UNCHANGED <<store, runs_started, store_written, prev_clean, failed_batch, trip, plain,
                                   after_clean, exception>>
               ELSE Finish(r, "RET_NO_ROWS", entries \o <<NoRowsToLoad>>)
    /\ UNCHANGED <<table_exists, table, loaded_timestamps, all_files, new_files>>

\* the flow's "except Exception" around one item
FailedToProcess(blob_name, e) ==
    [LogEntry("ERROR", "Failed to process", 0, 0, blob_name) EXCEPT !.e = e]

BlobData(blob_name) == (CHOOSE o \in store : o.name = blob_name).data

\* "except Exception as e: logger.error(...); continue" for the item at hand
ExceptionEscapes(r, blob_name, e) == Raise(r, "item")

ExceptContinue(r, blob_name, e) ==
    NextItem(r, all_rows[r], <<FailedToProcess(blob_name, e)>>)

\* what the last attempt of read_json_from_gcs raises: the download fails,
\* or json.loads does on bytes that are no JSON
ReadExceptions(blob_name) ==
    IF BlobData(blob_name).json = "invalid"
    THEN {"ServiceUnavailable", "JSONDecodeError"}
    ELSE {"ServiceUnavailable"}

\* read_json_from_gcs for new_files[item]
ReadJson(r) ==
    /\ pc[r] = "READ"
    /\ LET blob_name == new_files[r][item[r]] IN
       \/ \* the download raises, or json.loads does
          \/ Retry(r, ReadRetries)
          \/ /\ Exhausted(r, ReadRetries)
             /\ \E e \in ReadExceptions(blob_name) : ExceptContinue(r, blob_name, e)
             /\ UNCHANGED json_data
       \/ /\ BlobData(blob_name).json # "invalid"
          /\ json_data' = Set(json_data, r, BlobData(blob_name))
          /\ pc' = Set(pc, r, "TRANSFORM")
          /\ attempt' = Set(attempt, r, 0)
          /\ UNCHANGED <<store, table_exists, table, runs_started, loaded_timestamps,
                         all_files, new_files, item, all_rows, log, store_written,
                         prev_clean, failed_batch, trip, plain, after_clean, exception>>

\* transform_to_bigquery_row for new_files[item], then all_rows.append(row)
Transform(r) ==
    /\ pc[r] = "TRANSFORM"
    /\ \E blob_name \in {new_files[r][item[r]]} :
       \E result \in {transform_to_bigquery_row(json_data[r], blob_name)} :
          IF result.ok
          THEN NextItem(r, Append(all_rows[r], result.row), <<>>)
          ELSE \E e \in {TransformError(json_data[r], blob_name)} :
                  ExceptContinue(r, blob_name, e)
    /\ UNCHANGED json_data

\* the load job with WRITE_APPEND
LoadJobTruncates(rows) == rows

LoadJob(rows) == table \o rows

\* load_to_bigquery(all_rows), then the flow's "Pipeline complete"
Load(r) ==
    /\ pc[r] = "LOAD"
    /\ \/ /\ Retry(r, LoadRetries)
       \/ /\ Exhausted(r, LoadRetries)
          /\ Raise(r, "load_table_from_json")
       \/ /\ table' = LoadJob(all_rows[r])
          /\ table_exists' = TRUE
          /\ Finish(r, "RET_LOADED",
                    <<LogEntry("INFO", "Successfully loaded rows", Len(all_rows[r]), 0, <<>>),
                      LogEntry("INFO", "Pipeline complete - loaded NEW snapshots",
                               Len(all_rows[r]), 0, <<>>)>>)
          /\ UNCHANGED <<loaded_timestamps, all_files, new_files, item, json_data,
                         all_rows>>

Run(r) ==
    \/ StartRun(r)
    \/ LedgerRead(r)
    \/ ListFiles(r)
    \/ FilterNewFiles(r)
    \/ ReadJson(r)
    \/ Transform(r)
    \/ Load(r)

\* the served deployment starts a run when the one before has ended
Next ==
    \/ collect_bike_data
    \/ upload_other
    \/ \E r \in SerialSlots : Run(r)

Spec == Init /\ [][Next]_vars

\* the statements of the flow function: once called it keeps executing, each
\* task attempt returning or raising
FlowBody(r) ==
    \/ LedgerRead(r)
    \/ ListFiles(r)
    \/ FilterNewFiles(r)
    \/ ReadJson(r)
    \/ Transform(r)
    \/ Load(r)

LiveSpec == Init /\ [][Next]_vars /\ \A r \in SerialSlots : WF_vars(FlowBody(r))

\* the deployment is served again over what an earlier run left: the
\* snapshot of 14:30:00 in the store and its row in the table
LoadedInit ==
    /\ store = {Object(BlobName(D20260102, T143000), FeedFull)}
    /\ table_exists = TRUE
    /\ table = <<transform_to_bigquery_row(FeedFull, BlobName(D20260102, T143000)).row>>
    /\ runs_started = 0
    /\ pc = [r \in Slots |-> "IDLE"]
    /\ attempt = [r \in Slots |-> 0]
    /\ loaded_timestamps = [r \in Slots |-> {}]
    /\ all_files = [r \in Slots |-> <<>>]
    /\ new_files = [r \in Slots |-> <<>>]
    /\ item = [r \in Slots |-> 0]
    /\ json_data = [r \in Slots |-> NoJson]
    /\ all_rows = [r \in Slots |-> <<>>]
    /\ log = [r \in Slots |-> <<>>]
    /\ store_written = [r \in Slots |-> FALSE]
    /\ prev_clean = FALSE
    /\ failed_batch = <<>>
    /\ after_clean = [r \in Slots |-> FALSE]
    /\ exception = [r \in Slots |-> "None"]
    /\ trip = NoTrip /\ plain = NoPlain

RerunSpec == LoadedInit /\ [][Next]_vars

\* the served deployment starts a run at every interval, also while the
\* run before is in progress: no concurrency limit is set.  The collector
\* is the only writer of the bucket here.
OverlapNext ==
    \/ collect_bike_data
    \/ \E r \in Slots : Run(r)

OverlapSpec == Init /\ [][OverlapNext]_vars

(***************************************************************************)
(* The conversions on their own: one key from the collector's clock to the *)
(* ledger.  The collector builds the key from a timestamp and a date       *)
(* label; the flow extracts the timestamp from the key, transforms the     *)
(* snapshot, reads the row's data_fetched_at back from the table and       *)
(* filters the key against it.                                             *)
(***************************************************************************)
\* the fields a timestamp YYYYMMDD_HHMMSS is put together from: what the
\* clock gives, and digits no clock gives
Years == {<<"1", "0", "0", "0">>, <<"2", "0", "2", "4">>, <<"2", "0", "2", "6">>, <<"9", "9", "9", "9">>}
Months == {<<"0", "1">>, <<"0", "2">>, <<"1", "2">>, <<"1", "3">>}
Days == {<<"0", "1">>, <<"2", "9">>, <<"3", "0">>, <<"3", "1">>}
Hours == {<<"0", "0">>, <<"2", "3">>, <<"2", "4">>}
Minutes == {<<"0", "0">>, <<"5", "9">>}
Seconds == {<<"0", "0">>, <<"5", "9">>, <<"6", "0">>}

Timestamps ==
    {Y \o m \o d \o <<"_">> \o H \o M \o S :
        Y \in Years, m \in Months, d \in Days, H \in Hours, M \in Minutes, S \in Seconds}

\* strftime("%Y-%m-%d") of the second clock reading: the timestamp's own
\* date, the day after, or another day altogether
DateLabels ==
    {DateIsoformat(DateTime(2026, 1, 2, 0, 0, 0)),
     DateIsoformat(Tick(DateTime(2024, 2, 29, 23, 59, 59))),
     DateIsoformat(Tick(DateTime(2026, 12, 31, 23, 59, 59)))}

KeyInit ==
    /\ FlowInit
    /\ plain = NoPlain
    /\ \E timestamp \in Timestamps, date_partition \in DateLabels, status_data \in FeedPayloads :
           trip = [NoTrip EXCEPT !.step = "CLOCK", !.timestamp = timestamp,
                                 !.date_partition = date_partition,
                                 !.status_data = status_data]

\* collect_bike_data: blob_name
BuildKey ==
    /\ trip.step = "CLOCK"
    /\ trip' = [trip EXCEPT !.step = "STORED",
                            !.blob_name = BlobName(trip.date_partition, trip.timestamp)]
    /\ UNCHANGED <<flow_vars, plain>>

\* filter_new_files, transform_to_bigquery_row: timestamp_str
ExtractTimestamp ==
    /\ trip.step = "STORED"
    /\ trip' = [trip EXCEPT !.step = "EXTRACTED",
                            !.timestamp_str = TimestampStr(trip.blob_name)]
    /\ UNCHANGED <<flow_vars, plain>>

\* transform_to_bigquery_row(json_data, blob_name)
TransformKey ==
    /\ trip.step = "EXTRACTED"
    /\ trip' = [trip EXCEPT !.step = "TRANSFORMED",
                            !.result = transform_to_bigquery_row(trip.status_data,
                                                                 trip.blob_name)]
    /\ UNCHANGED <<flow_vars, plain>>

\* the row is loaded, and get_already_loaded_timestamps reads it back
ReadBack ==
    /\ trip.step = "TRANSFORMED"
    /\ trip.result.ok
    /\ trip' = [trip EXCEPT !.step = "READ_BACK",
                            !.loaded_timestamps = NormalizedTimestamps(<<trip.result.row>>)]
    /\ UNCHANGED <<flow_vars, plain>>

\* filter_new_files([blob_name], loaded_timestamps) in a later run
FilterKey ==
    /\ trip.step = "READ_BACK"
    /\ trip' = [trip EXCEPT !.step = "FILTERED",
                            !.new_files = filter_new_files(<<trip.blob_name>>,
                                                           trip.loaded_timestamps)]
    /\ UNCHANGED <<flow_vars, plain>>

KeyNext ==
    \/ BuildKey
    \/ ExtractTimestamp
    \/ TransformKey
    \/ ReadBack
    \/ FilterKey

KeySpec == KeyInit /\ [][KeyNext]_vars

(***************************************************************************)
(* The plain loader (src/data_loading/load_station_status.py): main, one   *)
(* action per call of list_json_files and load_to_bigquery and one per     *)
(* iteration of its loop.  It has no ledger, no filter and no retries; an  *)
(* exception outside the loop's try ends the script.                       *)
(***************************************************************************)
PlainReturned == {"RET_NO_FILES", "RET_LOADED", "RET_NO_ROWS"}
PlainEnded == PlainReturned \cup {"RAISED"}

\* python load_station_status.py
MainStart ==
    /\ plain.pc \in PlainEnded \cup {"IDLE"}
    /\ runs_started < MaxRuns
    /\ runs_started' = runs_started + 1
    /\ plain' = [NoPlain EXCEPT !.pc = "LIST"]
    /\ UNCHANGED <<store, table_exists, table, pc, attempt, loaded_timestamps, all_files,
                   new_files, item, json_data, all_rows, log, store_written, prev_clean,
                   failed_batch, trip, after_clean, exception>>

\* json_files = list_json_files(bucket_name, prefix), then "if not json_files"
MainList ==
    /\ plain.pc = "LIST"
    /\ \/ plain' = [plain EXCEPT !.pc = "RAISED"]
       \/ \E json_files \in {Sorted(JsonNames(store))} :
              plain' = [plain EXCEPT !.json_files = json_files,
                                     !.i = IF json_files = <<>> THEN 0 ELSE 1,
                                     !.pc = IF json_files = <<>> THEN "RET_NO_FILES"
                                            ELSE "LOOP"]
    /\ UNCHANGED <<store, table_exists, table, runs_started, pc, attempt, loaded_timestamps,
                   all_files, new_files, item, json_data, all_rows, log, store_written,
                   prev_clean, failed_batch, trip, after_clean, exception>>

\* len(json_data.get('data', {}).get('stations', [])) of the print that
\* follows all_rows.append(row): it raises on a stations member that is null
StationsSized(payload) == ~(payload.data = "object" /\ payload.stations = "null")

\* the end of one iteration of "for i, blob_name in enumerate(json_files, 1)":
\* the rows accumulated so far and the exceptions the iteration printed,
\* then "if all_rows" after the last one
MainNextItem(rows, errors) ==
    plain' = [plain EXCEPT !.all_rows = rows,
                           !.printed = plain.printed \o errors,
                           !.i = IF plain.i < Len(plain.json_files) THEN plain.i + 1
                                 ELSE plain.i,
                           !.pc = IF plain.i < Len(plain.json_files) THEN "LOOP"
                                  ELSE IF rows # <<>> THEN "LOAD" ELSE "RET_NO_ROWS"]

\* the try block for json_files[i]: read, transform, append, print
MainItem ==
    /\ plain.pc = "LOOP"
    /\ \E blob_name \in {plain.json_files[plain.i]} :
       \/ \* the download raises, or json.loads does
          \E e \in ReadExceptions(blob_name) : MainNextItem(plain.all_rows, <<e>>)
       \/ /\ BlobData(blob_name).json # "invalid"
          /\ \E result \in {transform_to_bigquery_row(BlobData(blob_name), blob_name)} :
                IF ~result.ok
                THEN MainNextItem(plain.all_rows,
                                  <<TransformError(BlobData(blob_name), blob_name)>>)
                ELSE MainNextItem(Append(plain.all_rows, result.row),
                                  IF StationsSized(BlobData(blob_name)) THEN <<>>
                                  ELSE <<"TypeError">>)
    /\ UNCHANGED <<store, table_exists, table, runs_started, pc, attempt, loaded_timestamps,
                   all_files, new_files, item, json_data, all_rows, log, store_written,
                   prev_clean, failed_batch, trip, after_clean, exception>>

\* load_to_bigquery(all_rows, dataset_id, table_id)
MainLoad ==
    /\ plain.pc = "LOAD"
    /\ \/ /\ plain' = [plain EXCEPT !.pc = "RAISED"]
          /\ UNCHANGED <<table_exists, table>>
       \/ /\ table' = LoadJob(plain.all_rows)
          /\ table_exists' = TRUE
          /\ plain' = [plain EXCEPT !.pc = "RET_LOADED"]
    /\ UNCHANGED <<store, runs_started, pc, attempt, loaded_timestamps, all_files,
                   new_files, item, json_data, all_rows, log, store_written, prev_clean,
                   failed_batch, trip, after_clean, exception>>

main ==
    \/ MainStart
    \/ MainList
    \/ MainItem
    \/ MainLoad

\* collect_bike_data when the feed's stations member is null: the payload
\* is stored, and the len() of the message that follows raises
upload_null_stations ==
    /\ Cardinality(store) < MaxObjects
    /\ \E now \in Instants :
          /\ Strftime(now) \notin StoredTimestamps
          /\ Stored(Object(BlobName(DateIsoformat(now), Strftime(now)), FeedNullStations))

\* the two loaders over one bucket and one table, the table empty at first
\* or holding the row of 14:30:00 already
TwinInit == Init \/ LoadedInit

TwinNext ==
    \/ collect_bike_data
    \/ upload_other
    \/ upload_null_stations
    \/ \E r \in SerialSlots : Run(r)
    \/ main

TwinSpec == TwinInit /\ [][TwinNext]_vars

(***************************************************************************)
(* What the properties below speak of.  These definitions read names and   *)
(* rows by the grammar status_<timestamp>.json and by the ISO-8601 layout, *)
(* not through the flow's own conversions.                                 *)
(***************************************************************************)
Last(q) == q[Len(q)]

\* the name's last path segment is status_<something>.json
MatchesGrammar(blob_name) ==
    LET f == LastSegment(blob_name) IN
    /\ StartsWith(f, STATUS_) /\ EndsWith(f, DOT_JSON)
    /\ Len(f) >= Len(STATUS_) + Len(DOT_JSON)

\* the <something>
GrammarTimestamp(blob_name) ==
    LET f == LastSegment(blob_name) IN SubSeq(f, Len(STATUS_) + 1, Len(f) - Len(DOT_JSON))

\* YYYYMMDD_HHMMSS
TimestampShape(t) ==
    /\ Len(t) = 15
    /\ t[9] = "_"
    /\ \A i \in (1..15) \ {9} : IsDigit(t[i])

SnapshotName(blob_name) ==
    MatchesGrammar(blob_name) /\ TimestampShape(GrammarTimestamp(blob_name))

\* YYYY-MM-DDTHH:MM:SS of a timestamp YYYYMMDD_HHMMSS
IsoOf(t) ==
    SubSeq(t, 1, 4) \o <<"-">> \o SubSeq(t, 5, 6) \o <<"-">> \o SubSeq(t, 7, 8) \o <<"T">>
        \o SubSeq(t, 10, 11) \o <<":">> \o SubSeq(t, 12, 13) \o <<":">> \o SubSeq(t, 14, 15)

RowsFetchedAt(t) == {k \in 1..Len(table) : table[k].data_fetched_at = IsoOf(t)}

Errors(r) == {k \in 1..Len(log[r]) : log[r][k].level = "ERROR"}
ErrorFor(r, blob_name) == \E k \in Errors(r) : log[r][k].blob = blob_name
LoggedMsg(r, msg) == \E k \in 1..Len(log[r]) : log[r][k].msg = msg

NoRunInProgress == \A r \in Slots : pc[r] \in Ended \cup {"IDLE"}

\* the store holds only what the collector writes
OnlySnapshots == \A o \in store : SnapshotName(o.name) /\ o.data \in FeedPayloads

(***************************************************************************)
(* C1: in every reachable state no two rows of the destination table share *)
(* the same data_fetched_at.                                               *)
(* The flow violates it: get_already_loaded_timestamps returns the empty   *)
(* set whenever the query raises, also when the table holds rows, and the  *)
(* run then appends the rows a second time.                                *)
(***************************************************************************)
C1_UniqueFetchedAt ==
    \A i, j \in 1..Len(table) :
        i # j => table[i].data_fetched_at # table[j].data_fetched_at

(***************************************************************************)
(* C2: convergence.  Once a run has completed without logging an error and *)
(* no snapshot was stored since it started, the table holds exactly one    *)
(* row for every collection timestamp in the store.                        *)
(* The flow violates it through the duplicate rows of C1.                  *)
(***************************************************************************)
C2_Convergence ==
    (prev_clean /\ NoRunInProgress /\ OnlySnapshots) =>
        /\ \A o \in store : Cardinality(RowsFetchedAt(GrammarTimestamp(o.name))) = 1
        /\ Len(table) = Cardinality(store)

(***************************************************************************)
(* C3: idempotence.  A run that follows a run which completed without      *)
(* logging an error, with no snapshot stored since that run started,       *)
(* appends no row.                                                         *)
(* The flow violates it when the second run's ledger query raises (C1).    *)
(***************************************************************************)
C3_Idempotence ==
    \A r \in Slots : after_clean[r] => pc[r] \notin {"LOAD", "RET_LOADED"}

(***************************************************************************)
(* C4: partial-failure isolation.                                          *)
(***************************************************************************)
\* the payload lacks the structure the feed schema asks for
LacksData(p) == p.json # "object" \/ p.data # "object"
\* the payload is no JSON object
NotAnObject(p) == p.json # "object"

\* what "malformed" means: by the feed schema, or to the code
Malformed(sense, p) == IF sense = "schema" THEN LacksData(p) ELSE NotAnObject(p)

WorkSetSize(r) == Len(new_files[r])
MalformedItems(r, sense) ==
    {k \in 1..Len(new_files[r]) : Malformed(sense, BlobData(new_files[r][k]))}

\* the loop over the WorkSet is over, and the load did not fail
LoopDone(r) ==
    \/ pc[r] \in {"RET_LOADED", "RET_NO_ROWS"}
    \/ pc[r] = "RAISED" /\ exception[r] = "item"

\* exactly one item of the WorkSet is malformed; every other one has a
\* snapshot's name and was read within the retry budget
OneMalformed(r, sense) ==
    /\ LoopDone(r)
    /\ Cardinality(MalformedItems(r, sense)) = 1
    /\ \A k \in 1..Len(new_files[r]) :
        /\ SnapshotName(new_files[r][k])
        /\ ~Malformed(sense, BlobData(new_files[r][k])) => ~ErrorFor(r, new_files[r][k])

\* N-1 rows were appended, one per well-formed snapshot, and 1 item skipped
AllButOneLoaded(r, sense) ==
    /\ Len(all_rows[r]) = WorkSetSize(r) - 1
    /\ Cardinality(Errors(r)) = 1
    /\ \A k \in 1..Len(new_files[r]) :
        ~Malformed(sense, BlobData(new_files[r][k])) =>
            \E n \in 1..Len(all_rows[r]) :
                all_rows[r][n].data_fetched_at = IsoOf(GrammarTimestamp(new_files[r][k]))
    /\ WorkSetSize(r) > 1 =>
        /\ pc[r] = "RET_LOADED"
        /\ Len(table) >= Len(all_rows[r])
        /\ SubSeq(table, Len(table) - Len(all_rows[r]) + 1, Len(table)) = all_rows[r]
    /\ WorkSetSize(r) = 1 => pc[r] = "RET_NO_ROWS"

QueryWarned(r) ==
    log[r] # <<>> /\ Last(log[r]).msg = "Could not query BigQuery table"

C5_LedgerStep(r) ==
    (pc[r] = "LEDGER_READ" /\ pc'[r] # "LEDGER_READ") =>
        \/ pc'[r] = "RAISED" /\ exception'[r] = "bigquery.Client"
        \/ /\ pc'[r] = "LIST"
           /\ QueryWarned(r)' => loaded_timestamps'[r] = {}
           /\ ~table_exists => QueryWarned(r)'

\* C5: a step that leaves LEDGER_READ after the query raised goes to LIST
\* with the empty set; the run fails there only on the client's construction
C5_LedgerFailureNotFatal == [][\A r \in Slots : C5_LedgerStep(r)]_vars

\* C5: the query raised although the table holds rows, and the run is at LIST
C5_Witness ==
    \E r \in Slots :
        pc[r] = "LIST" /\ QueryWarned(r) /\ table # <<>> /\ loaded_timestamps[r] = {}

(***************************************************************************)
(* C6: filter_new_files returns exactly the keys of all_files, in their    *)
(* order, whose timestamp by the grammar status_<timestamp>.json is not in *)
(* loaded_timestamps.                                                      *)
(* The flow violates it: the two replace calls remove the literals         *)
(* wherever they occur, so a key such as status_<t>.json.json is dropped   *)
(* once <t> is in the ledger, although its timestamp by the grammar,       *)
(* <t>.json, is not.                                                       *)
(***************************************************************************)
Filtered(r) == LoggedMsg(r, "new files out of total")

AlreadyLoaded(r, blob_name) ==
    MatchesGrammar(blob_name) /\ GrammarTimestamp(blob_name) \in loaded_timestamps[r]

\* C6: new_files is all_files without the keys whose grammar timestamp is
\* in loaded_timestamps
C6_FilterContract ==
    \A r \in Slots :
        Filtered(r) =>
            new_files[r] = SelectSeq(all_files[r], LAMBDA b : ~AlreadyLoaded(r, b))

(***************************************************************************)
(* C7: the Transformer and the data container.                             *)
(***************************************************************************)
EmptyList == <<"[", "]">>

C7_Rejected(r) == all_rows'[r] = all_rows[r]
\* the step logs an error for the blob
C7_ErrorLogged(r, blob_name) ==
    \E k \in (Len(log[r]) + 1)..Len(log'[r]) :
        log'[r][k].level = "ERROR" /\ log'[r][k].blob = blob_name
C7_RowWith(r, stations) ==
    /\ Len(all_rows'[r]) = Len(all_rows[r]) + 1
    /\ Last(all_rows'[r]).stations = stations

\* C7 as claimed: every snapshot that lacks the data container is
\* rejected, and one with an empty station list yields a row whose
\* stations field is the serialized empty list.
C7_StepAsClaimed(r) ==
    (pc[r] = "TRANSFORM" /\ pc'[r] # "TRANSFORM" /\ SnapshotName(new_files[r][item[r]])) =>
        /\ LacksData(json_data[r]) => C7_Rejected(r)
        /\ json_data[r] = FeedEmpty => C7_RowWith(r, EmptyList)

C7_Step(r) ==
    (pc[r] = "TRANSFORM" /\ pc'[r] # "TRANSFORM") =>
        IF NotAnObject(json_data[r]) \/ new_files[r][item[r]] = ReadmeName
        THEN C7_Rejected(r) /\ C7_ErrorLogged(r, new_files[r][item[r]])
        ELSE /\ json_data[r] \in {FeedEmpty, FeedNoData} => C7_RowWith(r, EmptyList)
             /\ json_data[r] = FeedFull =>
                    C7_RowWith(r, <<"[", "s1", ",", " ", "s2", "]">>)
             /\ ~C7_ErrorLogged(r, new_files[r][item[r]])

NothingToLoad == {"RET_NO_FILES", "RET_NO_NEW", "RET_NO_ROWS"}

C8_Step ==
    /\ table' # table => \E r \in Slots : pc[r] = "LOAD" /\ all_rows[r] # <<>>
    /\ \A r \in Slots :
        /\ pc'[r] = "LOAD" => all_rows'[r] # <<>>
        /\ (pc'[r] \in NothingToLoad /\ pc[r] \notin NothingToLoad) =>
            /\ pc[r] \in {"LIST", "FILTER", "READ", "TRANSFORM"}
            /\ table' = table
            /\ FlowState(r)' = "Completed"
            /\ pc'[r] = "RET_NO_FILES" <=> all_files'[r] = <<>>
            /\ pc'[r] = "RET_NO_NEW" <=> (all_files'[r] # <<>> /\ new_files'[r] = <<>>)
            /\ pc'[r] = "RET_NO_ROWS" => all_rows'[r] = <<>>

\* C8: the load is reached only with rows, and a run with nothing to load
\* completes without changing the table
C8_LoadOnlyWithRows == [][C8_Step]_vars

\* C8: a run whose every item failed has ended, and the table holds what
\* it held
C8_Witness ==
    \E r \in Slots : pc[r] = "RET_NO_ROWS" /\ new_files[r] # <<>> /\ table # <<>>

(***************************************************************************)
(* C9: the load is additive only.  Every step leaves the rows the table    *)
(* held in place; a load that succeeds leaves the prior rows followed by   *)
(* the batch, a load attempt that fails leaves the table as it was.        *)
(***************************************************************************)
C9_Step ==
    /\ Len(table') >= Len(table)
    /\ SubSeq(table', 1, Len(table)) = table
    /\ \A r \in Slots :
        pc[r] = "LOAD" =>
            /\ pc'[r] = "RET_LOADED" => table' = table \o all_rows[r]
            /\ pc'[r] \in {"LOAD", "RAISED"} => table' = table

\* C9: every step keeps the rows the table held; a successful load adds
\* exactly the batch
C9_AdditiveOnly == [][C9_Step]_vars

\* C9: a load appended its batch to a table that held rows
C9_Witness ==
    \E r \in Slots :
        /\ pc[r] = "RET_LOADED"
        /\ Len(table) > Len(all_rows[r])
        /\ all_rows[r] # <<>>

(***************************************************************************)
(* C10: what a run leaves to tell its outcome by.                          *)
(***************************************************************************)
\* C10 as claimed: every run ends with a report of its candidates (the
\* flow has no report but its log, where list_json_files logs the count).
C10_EveryRunReports ==
    \A r \in Slots : pc[r] \in Ended => LoggedMsg(r, "JSON files in bucket")

\* what the run's final state and last message tell
Observed(r) ==
    IF FlowState(r) = "Failed" THEN "failed"
    ELSE IF log[r] = <<>> THEN "unknown"
    ELSE IF Last(log[r]) \in {NoJsonFilesFound, NoNewFiles} THEN "nothing to load"
    ELSE IF Last(log[r]) = NoRowsToLoad THEN "every item skipped"
    ELSE IF Last(log[r]).msg = "Pipeline complete - loaded NEW snapshots" THEN "loaded"
    ELSE "unknown"

\* what the run did
Outcome(r) ==
    IF exception[r] # "None" THEN "failed"
    ELSE IF all_files[r] = <<>> \/ new_files[r] = <<>> THEN "nothing to load"
    ELSE IF all_rows[r] = <<>> THEN "every item skipped"
    ELSE "loaded"

\* C10, amended: a run leaves no report record, only its final flow state
\* and its log (a run that fails before the listing logs no count); by
\* these a run that found nothing to load, a run that failed and a run in
\* which every item was skipped are told apart, and a run that got through
\* the loop has logged one error for each item it did not turn into a row.
C10_OutcomesDistinguishable ==
    \A r \in Slots :
        pc[r] \in Ended =>
            /\ Observed(r) = Outcome(r)
            /\ pc[r] \in {"RET_LOADED", "RET_NO_ROWS"} =>
                Cardinality(Errors(r)) + Len(all_rows[r]) = Len(new_files[r])

\* C10: a run in which every item was skipped has ended
C10_Witness ==
    \E r \in Slots :
        pc[r] = "RET_NO_ROWS" /\ Observed(r) = "every item skipped" /\ new_files[r] # <<>>

(***************************************************************************)
(* C11: what fails a run.  A run fails only in a step of the ledger read,  *)
(* the listing or the load whose retry budget is used up, and is failed    *)
(* exactly when the exception of one of these calls left the flow; an item *)
(* that cannot be read or transformed is logged with its key and the loop  *)
(* goes on.                                                                *)
(***************************************************************************)
Escalating == {"bigquery.Client", "list_blobs", "load_table_from_json"}

C11_Escalates(r) ==
    \/ pc[r] = "LEDGER_READ" /\ attempt[r] = LedgerRetries /\ exception'[r] = "bigquery.Client"
    \/ pc[r] = "LIST" /\ attempt[r] = ListRetries /\ exception'[r] = "list_blobs"
    \/ pc[r] = "LOAD" /\ attempt[r] = LoadRetries /\ exception'[r] = "load_table_from_json"

\* the step ends the loop's work on the item at hand without a row for it
C11_ItemFailed(r) ==
    /\ pc[r] \in {"READ", "TRANSFORM"}
    /\ pc'[r] # "TRANSFORM"
    /\ pc'[r] # pc[r] \/ item'[r] # item[r]
    /\ all_rows'[r] = all_rows[r]

C11_Step(r) ==
    /\ (pc[r] # "RAISED" /\ pc'[r] = "RAISED") => C11_Escalates(r)
    /\ FlowState(r)' = "Failed" <=> exception'[r] \in Escalating
    /\ C11_ItemFailed(r) =>
        /\ C7_ErrorLogged(r, new_files[r][item[r]])
        /\ pc'[r] \in {"READ", "LOAD", "RET_NO_ROWS"}
        /\ exception'[r] = "None"

\* C11: a run fails if and only if the ledger read, the listing or the
\* load used up its retry budget; a failure on one key never fails the run
C11_FailsOnlyOnEscalation == [][\A r \in Slots : C11_Step(r)]_vars

\* C11: a run that skipped a key with a bad file name went on to the load
\* and failed there, the load's budget used up
C11_Witness ==
    \E r \in Slots :
        /\ pc[r] = "RAISED"
        /\ exception[r] = "load_table_from_json"
        /\ \E k \in Errors(r) : log[r][k].e = "ValueError"

(***************************************************************************)
(* C12: the concrete scenario.  The store holds the snapshots of           *)
(* 20260102_143000 and 20260102_150000 and the table holds 20260102_143000 *)
(* when the run starts; the run completes with every item read within its  *)
(* retry budget.  It then has appended exactly one row, with               *)
(* data_fetched_at 2026-01-02T15:00:00, and its log reports 2 files found, *)
(* 1 new file out of 2, 1 row loaded and no failed item.                   *)
(* The flow violates it when the run's ledger query raises (C1): both      *)
(* snapshots are new to it and it appends two rows.                        *)
(***************************************************************************)
\* the rows the run in slot r has appended, and the table before them
Appended(r) == IF pc[r] = "RET_LOADED" THEN all_rows[r] ELSE <<>>
Before(r) == SubSeq(table, 1, Len(table) - Len(Appended(r)))

LoggedCount(r, msg, n, of) ==
    \E k \in 1..Len(log[r]) : log[r][k].msg = msg /\ log[r][k].n = n /\ log[r][k].of = of

\* no read of the run used up its retry budget on a failing service
ReadsWithinBudget(r) == \A k \in Errors(r) : log[r][k].e # "ServiceUnavailable"

C12_Given(r) ==
    /\ pc[r] \in Returned
    /\ ~store_written[r]
    /\ OnlySnapshots
    /\ {o.name : o \in store} = {BlobName(D20260102, T143000), BlobName(D20260102, T150000)}
    /\ Before(r) # <<>>
    /\ \A k \in 1..Len(Before(r)) : Before(r)[k].data_fetched_at = IsoOf(T143000)
    /\ ReadsWithinBudget(r)

C12_Then(r) ==
    /\ Len(Appended(r)) = 1
    /\ Appended(r)[1].data_fetched_at = IsoOf(T150000)
    /\ table = Before(r) \o Appended(r)
    /\ LoggedCount(r, "JSON files in bucket", 2, 0)
    /\ LoggedCount(r, "new files out of total", 1, 2)
    /\ LoggedCount(r, "Successfully loaded rows", 1, 0)
    /\ Errors(r) = {}

\* C12: in the scenario a run appends exactly 1 row, for 15:00:00, and
\* reports 2 candidates, 1 loaded, 0 skipped
C12_Scenario == \A r \in Slots : C12_Given(r) => C12_Then(r)

(***************************************************************************)
(* C13: the file-name grammar round trip.  For every timestamp of the form *)
(* YYYYMMDD_HHMMSS, a calendar date or not, and every date label, the key  *)
(* the collector builds gives the timestamp back unchanged when the flow   *)
(* extracts it (last path segment, 'status_' and '.json' removed), and the *)
(* grammar status_<timestamp>.json reads the same timestamp from it.       *)
(***************************************************************************)
Extracted == trip.step \in {"EXTRACTED", "TRANSFORMED", "READ_BACK", "FILTERED"}

\* C13: the timestamp extracted from the key is the timestamp the key was
\* built from
C13_GrammarRoundTrip ==
    Extracted =>
        /\ TimestampShape(trip.timestamp)
        /\ trip.timestamp_str = trip.timestamp
        /\ SnapshotName(trip.blob_name)
        /\ GrammarTimestamp(trip.blob_name) = trip.timestamp

\* C13: the timestamp of no calendar date, under the label of another day,
\* has made the round trip
C13_Witness ==
    /\ Extracted
    /\ SubSeq(trip.timestamp, 5, 6) = <<"1", "3">>
    /\ trip.date_partition = D20260102
    /\ trip.timestamp_str = trip.timestamp

(***************************************************************************)
(* C14: overlapping runs.  When a run reads the ledger before the load of  *)
(* the run before it has committed, the keys not yet loaded are in its     *)
(* WorkSet too, and once both runs have completed the table holds exactly  *)
(* one row for every collection timestamp either of them worked on.        *)
(* The flow violates it: both runs append their batch, the load only adds  *)
(* rows, and the table holds two rows for each key the two had in common.  *)
(***************************************************************************)
\* every query of the run that raised did so for the missing table: the
\* ledger the run went by is the table as it was
LedgerAsStored(r) ==
    \A k \in 1..Len(log[r]) :
        log[r][k].msg = "Could not query BigQuery table" => log[r][k].e = "NotFound"

InWorkSet(r, blob_name) == \E k \in 1..Len(new_files[r]) : new_files[r][k] = blob_name

\* both runs have completed their load, neither skipped an item
C14_BothCompleted(r1, r2) ==
    /\ r1 # r2
    /\ pc[r1] = "RET_LOADED" /\ pc[r2] = "RET_LOADED"
    /\ LedgerAsStored(r1) /\ LedgerAsStored(r2)
    /\ Errors(r1) = {} /\ Errors(r2) = {}
    /\ OnlySnapshots

\* C14: after two runs, overlapping or not, have completed, every key
\* either worked on has exactly one row
C14_OverlapSelfCorrecting ==
    \A r1, r2 \in Slots :
        C14_BothCompleted(r1, r2) =>
            \A o \in store :
                (InWorkSet(r1, o.name) \/ InWorkSet(r2, o.name)) =>
                    Cardinality(RowsFetchedAt(GrammarTimestamp(o.name))) = 1

(***************************************************************************)
(* C15: after a failed load.  A run that load_to_bigquery fails leaves the *)
(* table and the store as they were, and the WorkSet of the run after it   *)
(* holds the key of every row of the failed batch.                         *)
(* The flow violates it through C1: a run whose ledger query raised has    *)
(* rows in its batch that the table already holds; when its load fails,    *)
(* the next run reads the ledger and leaves those keys out.                *)
(***************************************************************************)
\* the row is the one the key's snapshot gives
RowOfKey(row, blob_name) ==
    /\ MatchesGrammar(blob_name)
    /\ Len(GrammarTimestamp(blob_name)) >= 15
    /\ IsoOf(SubSeq(GrammarTimestamp(blob_name), 1, 15)) = row.data_fetched_at

\* the rows of the failed batch that the table does not hold
NotInTable(rows) ==
    SelectSeq(rows, LAMBDA row :
        \A k \in 1..Len(table) : table[k].data_fetched_at # row.data_fetched_at)

\* the step computes the WorkSet of the run in slot r
C15_Filters(r) == pc[r] = "FILTER" /\ pc'[r] # "FILTER"

C15_InNextWorkSet(r, rows) ==
    \A n \in 1..Len(rows) :
        \E k \in 1..Len(new_files'[r]) : RowOfKey(rows[n], new_files'[r][k])

C15_Step(r) ==
    /\ (pc[r] = "LOAD" /\ pc'[r] = "RAISED") =>
        /\ table' = table /\ store' = store
        /\ failed_batch' = all_rows[r] /\ failed_batch' # <<>>
    /\ C15_Filters(r) => C15_InNextWorkSet(r, failed_batch)

\* C15: the run after a failed load has every key of the failed batch in
\* its WorkSet
C15_FailedBatchRetried == [][\A r \in Slots : C15_Step(r)]_vars

(***************************************************************************)
(* C16: a key off the grammar.  A listed key whose file name is not        *)
(* status_<YYYYMMDD_HHMMSS>.json gives no row: the step that ends the      *)
(* loop's work on it leaves the batch as it was and logs the key, and the  *)
(* loop goes on with the next key.                                         *)
(* The flow violates it: it has no check of the grammar but strptime on    *)
(* what the two replace calls leave, and a name such as                    *)
(* status_<t>.json.json is left as <t> and gives a row.                    *)
(***************************************************************************)
C16_Step(r) ==
    (/\ pc[r] = "TRANSFORM" /\ pc'[r] # "TRANSFORM"
     /\ ~SnapshotName(new_files[r][item[r]])) =>
        /\ all_rows'[r] = all_rows[r]
        /\ C7_ErrorLogged(r, new_files[r][item[r]])
        /\ pc'[r] \in {"READ", "LOAD", "RET_NO_ROWS"}

\* C16: a key off the grammar never gives a row, and the run goes on
C16_OffGrammarSkipped == [][\A r \in Slots : C16_Step(r)]_vars

(***************************************************************************)
(* C17: the retry budgets.  attempt counts the failed attempts of the call *)
(* in progress, so the attempt under way is number attempt + 1.            *)
(***************************************************************************)
AttemptNumber(r) == attempt[r] + 1

\* C17 as claimed: fewer attempts are made for one read_json_from_gcs call
\* than the ledger read and the listing may take
C17_ReadBudgetTighter ==
    \A r \in Slots :
        pc[r] = "READ" =>
            /\ AttemptNumber(r) < LedgerRetries + 1
            /\ AttemptNumber(r) < ListRetries + 1

\* C17, amended: the budget of the read is the larger one.  One
\* read_json_from_gcs call is attempted up to 4 times, one call of
\* get_already_loaded_timestamps or of list_json_files never more than 3
\* times.
C17_ReadBudgetLarger ==
    \A r \in Slots :
        /\ pc[r] = "READ" => AttemptNumber(r) <= 4
        /\ pc[r] \in {"LEDGER_READ", "LIST"} => AttemptNumber(r) <= 3

\* C17: a read is at its fourth attempt
C17_Witness == \E r \in Slots : pc[r] = "READ" /\ AttemptNumber(r) = 4

(***************************************************************************)
(* C18: the date partition comes from the file name.  Whatever date the    *)
(* key's date= segment names, a transformed row has the calendar date of   *)
(* the file name's timestamp as date_partition and that timestamp as       *)
(* data_fetched_at, and the rest of the row is the payload's: the row is   *)
(* given by the payload and the file name alone.                           *)
(***************************************************************************)
\* the number the digits t[i..j] spell
RECURSIVE Number(_, _, _)
Number(t, i, j) == IF i > j THEN 0 ELSE 10 * Number(t, i, j - 1) + DigitVal(t[j])

\* the timestamp names a date of the calendar and a time of the day
CalendarTimestamp(t) ==
    /\ TimestampShape(t)
    /\ Number(t, 1, 4) >= 1
    /\ Number(t, 5, 6) \in 1..12
    /\ Number(t, 7, 8) >= 1
    /\ Number(t, 7, 8) <= DaysInMonth(Number(t, 1, 4), Number(t, 5, 6))
    /\ Number(t, 10, 11) <= 23
    /\ Number(t, 12, 13) <= 59
    /\ Number(t, 14, 15) <= 59

\* YYYY-MM-DD of a timestamp YYYYMMDD_HHMMSS
IsoDateOf(t) == SubSeq(IsoOf(t), 1, 10)

Transformed == trip.step \in {"TRANSFORMED", "READ_BACK", "FILTERED"}

\* C18: the row's date_partition is the date of the file name's timestamp,
\* and the row is given by the payload and the file name alone
C18_PartitionFromFileName ==
    Transformed =>
        /\ trip.result.ok <=> CalendarTimestamp(trip.timestamp)
        /\ trip.result.ok =>
            /\ trip.result.row.date_partition = IsoDateOf(trip.timestamp)
            /\ trip.result.row.data_fetched_at = IsoOf(trip.timestamp)
            /\ trip.result.row.last_updated = trip.status_data.last_updated
            /\ trip.result.row.ttl = trip.status_data.ttl
            /\ trip.result.row.version = trip.status_data.version
            /\ trip.result.row.stations =
                   IF trip.status_data = FeedFull
                   THEN <<"[", "s1", ",", " ", "s2", "]">> ELSE EmptyList

\* C18: a snapshot of the leap day, stored under the label of another day,
\* has its row
C18_Witness ==
    /\ Transformed
    /\ trip.result.ok
    /\ SubSeq(trip.timestamp, 1, 8) = <<"2", "0", "2", "4", "0", "2", "2", "9">>
    /\ trip.date_partition = D20260102
    /\ trip.result.row.date_partition # trip.date_partition

(***************************************************************************)
(* C19: the round trip from key to ledger.  For every key whose timestamp  *)
(* t names a date of the calendar and a time of the day (years 1000 to     *)
(* 9999), the key is transformed, the data_fetched_at of its row reads     *)
(* back from the table as exactly t, and filter_new_files, given the       *)
(* ledger read back, does not keep the key.                                *)
(***************************************************************************)
C19_KeyToLedger ==
    /\ (Transformed /\ CalendarTimestamp(trip.timestamp)) => trip.result.ok
    /\ trip.step \in {"READ_BACK", "FILTERED"} => trip.loaded_timestamps = {trip.timestamp}
    /\ trip.step = "FILTERED" => trip.new_files = <<>>

\* C19: the key of the last second of a leap day was filtered out by the
\* ledger its own row gave
C19_Witness ==
    /\ trip.step = "FILTERED"
    /\ trip.timestamp = <<"2", "0", "2", "4", "0", "2", "2", "9", "_", "2", "3", "5", "9", "5", "9">>
    /\ trip.loaded_timestamps = {trip.timestamp}
    /\ trip.new_files = <<>>

(***************************************************************************)
(* C20: every run terminates.  A run that has started reaches a return     *)
(* point of the flow function or fails with an exception, whatever the     *)
(* store holds, whatever is stored meanwhile and whichever attempts fail.  *)
(***************************************************************************)
InProgress(r) == pc[r] \notin Ended \cup {"IDLE"}

C20_EveryRunTerminates == \A r \in SerialSlots : InProgress(r) ~> (pc[r] \in Ended)

\* C20: a run went through every step with two snapshots and ended when
\* the load job had failed on its last attempt
C20_Witness ==
    /\ pc[1] = "RAISED"
    /\ exception[1] = "load_table_from_json"
    /\ Len(all_rows[1]) = 2

(***************************************************************************)
(* C21: the two loaders.  Over the same listing and with no download       *)
(* failing, the flow with an empty ledger and the plain loader build the   *)
(* same batch of rows.  Whatever the ledger holds, the plain loader's      *)
(* batch has a row for every listed snapshot, while the flow's batch has   *)
(* rows only for timestamps outside its ledger, one for every listed       *)
(* snapshot whose timestamp is outside it.                                 *)
(***************************************************************************)
\* YYYYMMDD_HHMMSS of a text YYYY-MM-DDTHH:MM:SS
StampOfIso(t) ==
    SubSeq(t, 1, 4) \o SubSeq(t, 6, 7) \o SubSeq(t, 9, 10) \o <<"_">>
        \o SubSeq(t, 12, 13) \o SubSeq(t, 15, 16) \o SubSeq(t, 18, 19)

\* the loop over the files has ended: the batch is what the run loads
FlowBatchComplete(r) ==
    \/ pc[r] \in {"LOAD", "RET_LOADED", "RET_NO_ROWS", "RET_NO_NEW", "RET_NO_FILES"}
    \/ pc[r] = "RAISED" /\ exception[r] = "load_table_from_json"

PlainBatchComplete ==
    \/ plain.pc \in {"LOAD", "RET_LOADED", "RET_NO_ROWS", "RET_NO_FILES"}
    \/ plain.pc = "RAISED" /\ plain.json_files # <<>>

\* a download failed for good
FlowReadFailed(r) ==
    \E k \in 1..Len(log[r]) :
        log[r][k].msg = "Failed to process" /\ log[r][k].e = "ServiceUnavailable"

PlainReadFailed ==
    \E k \in 1..Len(plain.printed) : plain.printed[k] = "ServiceUnavailable"

\* the listed names that are snapshots holding a JSON object
ListedSnapshots(files) ==
    {k \in 1..Len(files) : SnapshotName(files[k]) /\ BlobData(files[k]).json = "object"}

HasRowFor(rows, blob_name) ==
    \E j \in 1..Len(rows) : rows[j].data_fetched_at = IsoOf(GrammarTimestamp(blob_name))

C21_SameBatch(r) ==
    (/\ FlowBatchComplete(r) /\ PlainBatchComplete
     /\ all_files[r] = plain.json_files
     /\ loaded_timestamps[r] = {}
     /\ ~FlowReadFailed(r) /\ ~PlainReadFailed)
        => all_rows[r] = plain.all_rows

C21_PlainLoadsAll ==
    (PlainBatchComplete /\ ~PlainReadFailed) =>
        \A k \in ListedSnapshots(plain.json_files) :
            HasRowFor(plain.all_rows, plain.json_files[k])

C21_FlowLoadsUnloaded(r) ==
    /\ \A j \in 1..Len(all_rows[r]) :
            StampOfIso(all_rows[r][j].data_fetched_at) \notin loaded_timestamps[r]
    /\ (FlowBatchComplete(r) /\ ~FlowReadFailed(r)) =>
            \A k \in ListedSnapshots(all_files[r]) :
                GrammarTimestamp(all_files[r][k]) \notin loaded_timestamps[r]
                    => HasRowFor(all_rows[r], all_files[r][k])

C21_TwinLoaders ==
    /\ C21_PlainLoadsAll
    /\ \A r \in SerialSlots : C21_SameBatch(r) /\ C21_FlowLoadsUnloaded(r)

\* C21: with an empty ledger both loaders listed the same two objects and
\* built the same batch of two rows, one of them for a snapshot whose
\* stations member is null, after which the plain loader printed an error
C21_Witness ==
    /\ pc[1] = "RET_LOADED" /\ plain.pc = "RET_LOADED"
    /\ Len(plain.json_files) = 2 /\ all_files[1] = plain.json_files
    /\ loaded_timestamps[1] = {}
    /\ ~FlowReadFailed(1) /\ ~PlainReadFailed
    /\ plain.printed = <<"TypeError">>
    /\ Len(plain.all_rows) = 2 /\ all_rows[1] = plain.all_rows

\* C21: with the row of 14:30:00 in the ledger both loaders listed the same
\* two snapshots; the plain loader's batch has both rows, the flow's only
\* the row of 15:00:00
C21_LedgerWitness ==
    /\ FlowBatchComplete(1) /\ PlainBatchComplete
    /\ Len(plain.json_files) = 2 /\ all_files[1] = plain.json_files
    /\ loaded_timestamps[1] = {T143000}
    /\ ~FlowReadFailed(1) /\ ~PlainReadFailed
    /\ Len(plain.all_rows) = 2 /\ Len(all_rows[1]) = 1
    /\ all_rows[1][1].data_fetched_at = IsoOf(T150000)
    /\ plain.all_rows[1].data_fetched_at = IsoOf(T143000)
====
